---- MODULE Spec2Model ----
(***************************************************************************)
(* Model of match_listings_to_products.py: a minhash / LSH record linker.  *)
(*                                                                         *)
(* The script is a batch pipeline.  Part 1 builds the vocabulary from the  *)
(* products file, Part 2 draws the hash family, Part 3 minhashes every     *)
(* product and builds the banded lookup table, Part 4 matches every        *)
(* listing against the table.  File reading, JSON and tokenisation of raw  *)
(* strings are outside the model: a product or a listing is the list of    *)
(* tokens tokenize_raw_string produced for it.                             *)
(*                                                                         *)
(* Python lists indexed from 0 (hash functions, signatures, token lists)   *)
(* are sequences indexed from 1 here; product ids, listing indices and     *)
(* band numbers keep the source's 0-based values.                          *)
(***************************************************************************)
EXTENDS Integers, Sequences, FiniteSets, TLC

\* ---------------------------------------------------------------- bounds

MaxProducts == 2     \* lines of the products file
MaxListings == 2     \* lines of the listings file read

\* r_rows = 10 in the source; the model keeps 2 rows per band, the least that
\* makes a band a slice of more than one position.
r_rows == 2

\* sys.maxint of a 32-bit build (2^63 - 1 on a 64-bit build).
maxint == 2147483647

\* The token lists a line of the products file can yield: no token, one token,
\* two tokens one of them repeated.
ProductLines == {<<>>, <<"b">>, <<"a", "b", "a">>}

\* The token lists a line of the listings file can yield.  "c" is in no product.
ListingLines == {<<>>, <<"c", "b">>, <<"b", "a", "b">>}

\* The values of b_bands the two thresholds are taken to yield.
BandCounts == {1, 2}

\* The pairs (a, b) the two random.randint calls of one hash function can draw.
Coefficients == {<<1, 0>>, <<2, 1>>}

Range(s) == {s[x] : x \in DOMAIN s}

\* ----------------------------------------------------------------- state

VARIABLES
    products,                            \* the products file, one token list per line
    listings,                            \* the lines of the listings file read so far
    pc,                                  \* "vocab", "build", "match", "error"
    n_products,
    vocabulary,
    vocab_size,
    matched_vids_map,
    i,                                   \* line of the second pass over the products
    j,                                   \* tokens of line i already registered
    vids,
    b_bands,
    prime,
    hash_functions,
    minhash_signature_mat,
    banded_minhash_lookup_map,
    p,
    product_to_matched_listing_indices,
    listings_matched,
    listings_processed,
    item_minhash

vars == <<products, listings, pc, n_products, vocabulary, vocab_size,
          matched_vids_map, i, j, vids, b_bands, prime, hash_functions,
          minhash_signature_mat, banded_minhash_lookup_map, p,
          product_to_matched_listing_indices, listings_matched,
          listings_processed, item_minhash>>

part1 == <<vocabulary, vocab_size, matched_vids_map, i, j, vids>>
part2 == <<b_bands, prime, hash_functions>>
part3 == <<minhash_signature_mat, banded_minhash_lookup_map, p>>
part4 == <<listings, product_to_matched_listing_indices, listings_matched,
           listings_processed, item_minhash>>

\* ------------------------------------------------------- helper functions

\* math.ceil(math.log(m, 2)) for m >= 1.
RECURSIVE CeilLog2(_, _)
CeilLog2(m, x) == IF 2^x >= m THEN x ELSE CeilLog2(m, x + 1)

get_prime_bigger_than_vocab(n) ==
    LET x == CeilLog2(n + 1, 0)
    IN  2^x - 1

\* vocabulary.get(vtok, 0) in place of the membership filter.
match_tokens_to_vids_default(tokens, vocab) ==
    [x \in 1..Len(tokens) |->
        IF tokens[x] \in DOMAIN vocab THEN vocab[tokens[x]] ELSE 0]

match_tokens_to_vids(tokens, vocab) ==
    LET kept == SelectSeq(tokens, LAMBDA vtok : vtok \in DOMAIN vocab)
    IN  [x \in 1..Len(kept) |-> vocab[kept[x]]]

uniform_hash(a, b, pr, m) == [a |-> a, b |-> b, p |-> pr, m |-> m]

\* Calling the lambda uniform_hash returned, on x.
hfn(h, x) == (((h.a * x) + h.b) % h.p) % h.m

\* The lambda divides by p and by m: ZeroDivisionError when either is 0.
hfn_raises(h) == h.p = 0 \/ h.m = 0

\* The comparison turned around.
update_min_greater(cur_hash, cur) == IF cur_hash > cur THEN cur_hash ELSE cur

\* if cur_hash < minhash_signature[h]: minhash_signature[h] = cur_hash
update_min(cur_hash, cur) == IF cur_hash < cur THEN cur_hash ELSE cur

\* for i in matched_vids, for one hash function.
RECURSIVE minhash_one(_, _, _, _)
minhash_one(h, matched_vids, x, cur) ==
    IF x > Len(matched_vids)
    THEN cur
    ELSE minhash_one(h, matched_vids, x + 1, update_min(hfn(h, matched_vids[x]), cur))

minhash_matched_vids(matched_vids, hfns) ==
    [h \in 1..Len(hfns) |-> minhash_one(hfns[h], matched_vids, 1, maxint)]

\* A hash function called whatever the list holds.
minhash_raises_eager(matched_vids, hfns) ==
    \E h \in 1..Len(hfns) : hfn_raises(hfns[h])

\* minhash_matched_vids raises when it calls a hash function that raises, and
\* it calls one only for an id of the list.
minhash_raises(matched_vids, hfns) ==
    Len(matched_vids) > 0 /\ \E h \in 1..Len(hfns) : hfn_raises(hfns[h])

minhash_tokenized_item(tokens, vocab, hfns) ==
    minhash_matched_vids(match_tokens_to_vids(tokens, vocab), hfns)

\* ------------------------------------------------------------------ Init

\* The products file is read once to count its lines; nothing else is set up.
Init ==
    /\ products \in UNION {[1..n -> ProductLines] : n \in 0..MaxProducts}
    /\ listings = <<>>
    /\ pc = "vocab"
    /\ n_products = Len(products)
    /\ vocabulary = [t \in {} |-> 0]
    /\ vocab_size = 0
    /\ matched_vids_map = [q \in 0..(Len(products) - 1) |-> <<>>]
    /\ i = 0
    /\ j = 0
    /\ vids = <<>>
    /\ b_bands = 0
    /\ prime = 0
    /\ hash_functions = <<>>
    /\ minhash_signature_mat = <<>>
    /\ banded_minhash_lookup_map = <<>>
    /\ p = 0
    /\ product_to_matched_listing_indices = <<>>
    /\ listings_matched = 0
    /\ listings_processed = 0
    /\ item_minhash = <<>>

\* ---------------------------------------------------- Part 1: vocabulary

\* The membership test left out: every token gets the next id.
register_always(vocab, size, vtok) ==
    [vocabulary |-> [t \in DOMAIN vocab \cup {vtok} |-> IF t = vtok THEN size ELSE vocab[t]],
     vocab_size |-> size + 1]

\* if vtok not in vocabulary: vocabulary[vtok] = vocab_size; vocab_size += 1
register(vocab, size, vtok) ==
    IF vtok \notin DOMAIN vocab
    THEN [vocabulary |-> vocab @@ (vtok :> size), vocab_size |-> size + 1]
    ELSE [vocabulary |-> vocab, vocab_size |-> size]

\* One token of line i: register it when new, append its id to vids.
RegisterToken ==
    /\ pc = "vocab"
    /\ i < n_products
    /\ j < Len(products[i + 1])
    /\ LET vtok == products[i + 1][j + 1]
           reg == register(vocabulary, vocab_size, vtok)
       IN  /\ vocabulary' = reg.vocabulary
           /\ vocab_size' = reg.vocab_size
           /\ vids' = Append(vids, reg.vocabulary[vtok])
    /\ j' = j + 1
    /\ UNCHANGED <<products, pc, n_products, matched_vids_map, i>>
    /\ UNCHANGED <<part2, part3, part4>>

\* End of line i: matched_vids_map[i] = vids, next line.
StoreVids ==
    /\ pc = "vocab"
    /\ i < n_products
    /\ j = Len(products[i + 1])
    /\ matched_vids_map' = [matched_vids_map EXCEPT ![i] = vids]
    /\ i' = i + 1
    /\ j' = 0
    /\ vids' = <<>>
    /\ UNCHANGED <<products, pc, n_products, vocabulary, vocab_size>>
    /\ UNCHANGED <<part2, part3, part4>>

\* ------------------------------------------------- Part 2: hash functions

\* The products file is exhausted.  b_bands comes from the two thresholds,
\* the coefficients from random.randint; Part 3's two tables are allocated.
SetupHashFunctions ==
    /\ pc = "vocab"
    /\ i = n_products
    /\ \E bands \in BandCounts :
         /\ b_bands' = bands
         /\ prime' = get_prime_bigger_than_vocab(vocab_size)
         /\ \E coef \in [1..(r_rows * bands) -> Coefficients] :
              hash_functions' =
                  [k \in 1..(r_rows * bands) |->
                      uniform_hash(coef[k][1], coef[k][2], prime', vocab_size)]
         /\ minhash_signature_mat' =
                [h \in 1..(r_rows * bands) |-> [q \in 0..(n_products - 1) |-> maxint]]
         /\ banded_minhash_lookup_map' =
                [b \in 0..(bands - 1) |-> [key \in {} |-> <<>>]]
    /\ p' = 0
    /\ pc' = "build"
    /\ UNCHANGED <<products, n_products>>
    /\ UNCHANGED <<part1, part4>>

\* ------------------------------------ Part 3: minhash all of the products

\* The band offset left out: every band reads the first n_rows positions.
signature_section_first(mat, prod, b, n_rows) ==
    [r \in 1..n_rows |-> mat[r][prod]]

\* Column prod of the signature matrix, rows b*n_rows .. (b+1)*n_rows - 1.
signature_section(mat, prod, b, n_rows) ==
    [r \in 1..n_rows |-> mat[b * n_rows + r][prod]]

\* if signature_section not in map[b]: map[b][signature_section] = []
\* map[b][signature_section].append(p)
bucket_append(table, b, section, prod) ==
    LET made == IF section \notin DOMAIN table[b]
                THEN [table EXCEPT ![b] = @ @@ (section :> <<>>)]
                ELSE table
    IN  [made EXCEPT ![b][section] = Append(@, prod)]

\* for r in xrange(r_rows): the body does not depend on r, it runs n_rows times.
RECURSIVE rows_loop(_, _, _, _, _, _)
rows_loop(table, mat, prod, b, r, n_rows) ==
    IF r >= n_rows
    THEN table
    ELSE rows_loop(bucket_append(table, b, signature_section(mat, prod, b, n_rows), prod),
                   mat, prod, b, r + 1, n_rows)

\* for b in xrange(b_bands)
RECURSIVE bands_loop(_, _, _, _, _, _)
bands_loop(table, mat, prod, b, n_bands, n_rows) ==
    IF b >= n_bands
    THEN table
    ELSE bands_loop(rows_loop(table, mat, prod, b, 0, n_rows),
                    mat, prod, b + 1, n_bands, n_rows)

\* One iteration of "for p in xrange(n_products)".
MinhashProduct ==
    /\ pc = "build"
    /\ p < n_products
    /\ IF minhash_raises(matched_vids_map[p], hash_functions)
       THEN /\ pc' = "error"
            /\ UNCHANGED part3
       ELSE LET minhash_sig == minhash_matched_vids(matched_vids_map[p], hash_functions)
                mat == [h \in 1..Len(hash_functions) |->
                           [minhash_signature_mat[h] EXCEPT ![p] = minhash_sig[h]]]
            IN  /\ minhash_signature_mat' = mat
                /\ banded_minhash_lookup_map' =
                       bands_loop(banded_minhash_lookup_map, mat, p, 0, b_bands, r_rows)
                /\ p' = p + 1
                /\ pc' = "build"
    /\ UNCHANGED <<products, n_products>>
    /\ UNCHANGED <<part1, part2, part4>>

\* ------------------------------------------- Part 4: match the listings

\* The accumulator bound to the bucket list itself: += then extends the bucket.
lsh_band_aliased(st, minhash, b, n_rows) ==
    LET minhash_section == [r \in 1..n_rows |-> minhash[b * n_rows + r]]
    IN  IF minhash_section \in DOMAIN st.lookup_table[b]
        THEN [similar_items |-> st.similar_items \o st.lookup_table[b][minhash_section],
              lookup_table |-> [st.lookup_table EXCEPT ![b][minhash_section] =
                                   st.similar_items \o @]]
        ELSE st

\* The band offset b instead of b*n_rows.
lsh_band_offset(st, minhash, b, n_rows) ==
    LET minhash_section == [r \in 1..n_rows |-> minhash[b + r]]
    IN  IF minhash_section \in DOMAIN st.lookup_table[b]
        THEN [similar_items |-> st.similar_items \o st.lookup_table[b][minhash_section],
              lookup_table |-> st.lookup_table]
        ELSE st

\* One band of find_matches_with_lsh.  st carries the list being accumulated
\* and the lookup table the function was handed (a reference in the source).
lsh_band(st, minhash, b, n_rows) ==
    LET minhash_section == [r \in 1..n_rows |-> minhash[b * n_rows + r]]
    IN  IF minhash_section \in DOMAIN st.lookup_table[b]
        THEN [similar_items |-> st.similar_items \o st.lookup_table[b][minhash_section],
              lookup_table |-> st.lookup_table]
        ELSE st

\* for b in xrange(n_bands)
RECURSIVE lsh_loop(_, _, _, _, _)
lsh_loop(st, minhash, b, n_bands, n_rows) ==
    IF b >= n_bands
    THEN st
    ELSE lsh_loop(lsh_band(st, minhash, b, n_rows), minhash, b + 1, n_bands, n_rows)

\* list(set(l)): the elements of l once each, in an order the set decides.
list_of_set(l) ==
    LET S == Range(l)
    IN  {s \in [1..Cardinality(S) -> S] : Range(s) = S}

\* returns: the lists the call can return; lookup_table: the table after the call.
find_matches_with_lsh(minhash, lookup_table, n_bands, n_rows) ==
    LET st == lsh_loop([similar_items |-> <<>>, lookup_table |-> lookup_table],
                       minhash, 0, n_bands, n_rows)
    IN  [returns |-> list_of_set(st.similar_items), lookup_table |-> st.lookup_table]

\* The listing appended to the list of every similar item.
assign_listing_all(matched, similar_items, matched_product, line) ==
    [q \in DOMAIN matched |->
        IF q \in Range(similar_items) THEN Append(matched[q], line) ELSE matched[q]]

\* product_to_matched_listing_indices[matched_product].append(i)
assign_listing(matched, similar_items, matched_product, line) ==
    [matched EXCEPT ![matched_product] = Append(@, line)]

\* The products are all minhashed: allocate the result lists, open the listings.
StartMatching ==
    /\ pc = "build"
    /\ p = n_products
    /\ product_to_matched_listing_indices' = [q \in 0..(n_products - 1) |-> <<>>]
    /\ listings_matched' = 0
    /\ listings_processed' = 0
    /\ pc' = "match"
    /\ UNCHANGED <<products, n_products, listings, item_minhash>>
    /\ UNCHANGED <<part1, part2, part3>>

\* One line of the listings file: minhash it, look it up, break ties at random.
MatchListing ==
    /\ pc = "match"
    /\ listings_processed < MaxListings
    /\ \E vocab_tokens \in ListingLines :
         /\ listings' = Append(listings, vocab_tokens)
         /\ IF minhash_raises(match_tokens_to_vids(vocab_tokens, vocabulary), hash_functions)
            THEN /\ pc' = "error"
                 /\ UNCHANGED <<product_to_matched_listing_indices, listings_matched,
                                listings_processed, item_minhash,
                                banded_minhash_lookup_map>>
            ELSE LET sig == minhash_tokenized_item(vocab_tokens, vocabulary, hash_functions)
                     found == find_matches_with_lsh(sig, banded_minhash_lookup_map,
                                                    b_bands, r_rows)
                 IN  /\ item_minhash' = sig
                     /\ banded_minhash_lookup_map' = found.lookup_table
                     /\ \E similar_items \in found.returns :
                          IF Len(similar_items) > 0
                          THEN \E c \in 1..Len(similar_items) :
                                 /\ product_to_matched_listing_indices' =
                                        assign_listing(product_to_matched_listing_indices,
                                                       similar_items, similar_items[c],
                                                       listings_processed)
                                 /\ listings_matched' = listings_matched + 1
                          ELSE UNCHANGED <<product_to_matched_listing_indices,
                                           listings_matched>>
                     /\ listings_processed' = listings_processed + 1
                     /\ pc' = "match"
    /\ UNCHANGED <<products, n_products, minhash_signature_mat, p>>
    /\ UNCHANGED <<part1, part2>>

Next ==
    \/ RegisterToken
    \/ StoreVids
    \/ SetupHashFunctions
    \/ MinhashProduct
    \/ StartMatching
    \/ MatchListing

Spec == Init /\ [][Next]_vars

\* ================================================================ claims

\* The index is built and the listings are being read.
IndexBuilt == pc = "match"

ProductIds == 0..(n_products - 1)
BandIds == 0..(b_bands - 1)
Lines == 0..(listings_processed - 1)

\* The signature of product q as the signature matrix holds it.
StoredSig(q) == [h \in 1..Len(hash_functions) |-> minhash_signature_mat[h][q]]

\* The ids a token list stands for: out-of-vocabulary tokens dropped, a set.
IdSet(tokens) == {vocabulary[t] : t \in Range(tokens) \cap DOMAIN vocabulary}

SetMin(S) == CHOOSE m \in S : \A x \in S : m <= x

\* The minhash signature of a set of ids, from its definition.
SigOfIds(ids) ==
    [h \in 1..Len(hash_functions) |->
        IF ids = {} THEN maxint
        ELSE SetMin({hfn(hash_functions[h], x) : x \in ids})]

\* The signature the pipeline computes for a listing.
Signature(tokens) == minhash_tokenized_item(tokens, vocabulary, hash_functions)

\* The base records whose stored signature agrees with Q on every position
\* of at least one band.
Candidates(Q) ==
    {q \in ProductIds :
        \E b \in BandIds :
            \A r \in (b * r_rows + 1)..((b + 1) * r_rows) :
                minhash_signature_mat[r][q] = Q[r]}

BandValue(S, b) == [r \in 1..r_rows |-> S[b * r_rows + r]]

\* No other base record has a band value of q's.
Isolated(q) ==
    \A o \in ProductIds \ {q} : \A b \in BandIds :
        \E r \in (b * r_rows + 1)..((b + 1) * r_rows) :
            minhash_signature_mat[r][o] # minhash_signature_mat[r][q]

\* The base records whose matched list holds the listing.
Holders(line) ==
    {q \in ProductIds : line \in Range(product_to_matched_listing_indices[q])}

\* The lists find_matches_with_lsh can return for the listing read last.
LastReturns ==
    find_matches_with_lsh(item_minhash, banded_minhash_lookup_map, b_bands, r_rows).returns

RECURSIVE SumLen(_, _)
SumLen(f, keys) ==
    IF keys = {} THEN 0
    ELSE LET k == CHOOSE k \in keys : TRUE
         IN  Len(f[k]) + SumLen(f, keys \ {k})

\* C1: after the index build every base record id q is, for each band b, in
\* the bucket of band b keyed by the band-b slice of q's own signature, and
\* in no other bucket of band b.
C1_OneBucketPerBand ==
    IndexBuilt =>
        \A q \in ProductIds : \A b \in BandIds :
            LET own == BandValue(SigOfIds(Range(matched_vids_map[q])), b)
            IN  /\ own \in DOMAIN banded_minhash_lookup_map[b]
                /\ \A key \in DOMAIN banded_minhash_lookup_map[b] :
                       (q \in Range(banded_minhash_lookup_map[b][key])) <=> (key = own)

\* Two products share their bucket in band 0 and are in two buckets in band 1.
C1_Witness ==
    /\ IndexBuilt
    /\ n_products = 2
    /\ b_bands = 2
    /\ BandValue(StoredSig(0), 0) = BandValue(StoredSig(1), 0)
    /\ BandValue(StoredSig(0), 1) # BandValue(StoredSig(1), 1)
    /\ Range(banded_minhash_lookup_map[0][BandValue(StoredSig(0), 0)]) = {0, 1}
    /\ Cardinality(DOMAIN banded_minhash_lookup_map[1]) = 2

\* C2: a list find_matches_with_lsh returns for the signature of the listing
\* read last holds exactly the base records whose signature agrees with it on
\* every position of at least one band, each once.
C2_LshExact ==
    (IndexBuilt /\ listings_processed > 0) =>
        LET cand == Candidates(item_minhash)
        IN  /\ LastReturns # {}
            /\ \A ret \in LastReturns :
                   /\ Range(ret) = cand
                   /\ Len(ret) = Cardinality(cand)

\* The listing agrees with product 0 on both bands and with product 1 on the
\* second band only, where the first band value of product 1 is another bucket.
C2_Witness ==
    /\ IndexBuilt
    /\ listings_processed = 1
    /\ n_products = 2
    /\ b_bands = 2
    /\ Holders(0) = {1}
    /\ BandValue(item_minhash, 0) = BandValue(StoredSig(0), 0)
    /\ BandValue(item_minhash, 1) = BandValue(StoredSig(0), 1)
    /\ BandValue(item_minhash, 0) # BandValue(StoredSig(1), 0)
    /\ BandValue(item_minhash, 1) = BandValue(StoredSig(1), 1)

\* C3: every listing processed is in the matched list of exactly one base
\* record, one of its candidates, when it has candidates, and in no list when
\* it has none; no list holds it twice.
C3_AtMostOneBase ==
    IndexBuilt =>
        \A line \in Lines :
            \A Q \in {Signature(listings[line + 1])} :
            \A cand \in {Candidates(Q)} :
            \A held \in {Holders(line)} :
                /\ held \subseteq cand
                /\ cand # {} => Cardinality(held) = 1
                /\ cand = {} => held = {}
                /\ \A q \in held :
                       Cardinality({x \in DOMAIN product_to_matched_listing_indices[q] :
                                       product_to_matched_listing_indices[q][x] = line}) = 1

\* Two listings processed: the first has two candidates and went to the
\* second of them, the last has none.
C3_Witness ==
    /\ IndexBuilt
    /\ listings_processed = 2
    /\ Cardinality(Candidates(Signature(listings[1]))) = 2
    /\ Candidates(item_minhash) = {}
    /\ Holders(0) = {1}
    /\ Holders(1) = {}

\* C4: for every vocabulary size n >= 1 the prime handed to the hash
\* functions strictly exceeds the modulus n.
C4_PrimeExceedsVocab ==
    (pc \in {"build", "match"} /\ vocab_size >= 1) =>
        /\ prime > vocab_size
        /\ \A h \in 1..Len(hash_functions) : hash_functions[h].p > hash_functions[h].m

\* C5 as stated: with an empty vocabulary the run does not fail and no base
\* record receives any listing.
C5_EmptyVocabAllUnmatched ==
    (vocab_size = 0 /\ pc \in {"build", "match", "error"}) =>
        /\ pc # "error"
        /\ IndexBuilt =>
             /\ listings_matched = 0
             /\ \A q \in ProductIds : product_to_matched_listing_indices[q] = <<>>

\* C5 amended: with an empty vocabulary the run does not fail, every listing
\* gets the all-sentinel signature and every base record as a candidate; each
\* listing is matched to exactly one base record when there is a base record
\* and is unmatched when there is none.
C5_EmptyVocabSentinelMatch ==
    (vocab_size = 0 /\ pc \in {"build", "match", "error"}) =>
        /\ pc # "error"
        /\ IndexBuilt =>
             /\ listings_matched = (IF n_products > 0 THEN listings_processed ELSE 0)
             /\ \A line \in Lines :
                    Cardinality(Holders(line)) = (IF n_products > 0 THEN 1 ELSE 0)
             /\ listings_processed > 0 =>
                    /\ item_minhash = [h \in 1..(r_rows * b_bands) |-> maxint]
                    /\ \A ret \in LastReturns : Range(ret) = ProductIds

\* The vocabulary is empty, there are two base records without tokens, two
\* listings with tokens were read and each went to another base record.
C5_Witness ==
    /\ IndexBuilt
    /\ vocab_size = 0
    /\ n_products = 2
    /\ listings_processed = 2
    /\ listings[1] # <<>>
    /\ listings[2] # <<>>
    /\ Holders(0) = {1}
    /\ Holders(1) = {0}

\* C6: a signature has one position per hash function; position h is the
\* minimum of hash function h over the ids of the list, and the sentinel
\* sys.maxint when the list is empty.  Checked on the stored signature of
\* every product minhashed and on the signature of the listing read last.
C6_MinhashIsMin ==
    (pc \in {"build", "match"}) =>
        /\ \A q \in 0..(p - 1) :
             /\ DOMAIN StoredSig(q) = 1..(r_rows * b_bands)
             /\ StoredSig(q) = SigOfIds(Range(matched_vids_map[q]))
             /\ matched_vids_map[q] = <<>> =>
                    \A h \in 1..(r_rows * b_bands) : StoredSig(q)[h] = maxint
        /\ (pc = "match" /\ listings_processed > 0) =>
             LET v == match_tokens_to_vids(listings[listings_processed], vocabulary)
             IN  /\ item_minhash = minhash_matched_vids(v, hash_functions)
                 /\ Len(item_minhash) = Len(hash_functions)
                 /\ item_minhash = SigOfIds(Range(v))

\* A product without tokens, all sentinel, and a product with two ids, one
\* of them twice, whose minimum under some hash function is below the hash of
\* one of its ids.
C6_Witness ==
    /\ pc = "build"
    /\ p = 2
    /\ matched_vids_map[0] = <<>>
    /\ \A h \in 1..Len(hash_functions) : StoredSig(0)[h] = maxint
    /\ matched_vids_map[1] = <<0, 1, 0>>
    /\ \E h \in 1..Len(hash_functions) : StoredSig(1)[h] < hfn(hash_functions[h], 1)

\* C7: a listing whose tokens stand for the same set of ids as base record q
\* (out-of-vocabulary tokens dropped, order and repetition ignored) has q's
\* signature, has q among its candidates and is matched; it is matched to q
\* when no other base record shares a band value with q.
C7_SameIdsSameMatch ==
    IndexBuilt =>
        \A line \in Lines :
            \A ids \in {IdSet(listings[line + 1])} :
            \A sig \in {Signature(listings[line + 1])} :
            \A held \in {Holders(line)} :
                \A q \in {o \in ProductIds : Range(matched_vids_map[o]) = ids} :
                    /\ sig = StoredSig(q)
                    /\ held # {}
                    /\ Isolated(q) => held = {q}
                    /\ (line = listings_processed - 1) =>
                           /\ item_minhash = sig
                           /\ \A ret \in LastReturns : q \in Range(ret)

\* The vocabulary has two ids; the listing has an out-of-vocabulary token and
\* stands for the ids of product 1, which shares no band value with product 0.
C7_Witness ==
    /\ IndexBuilt
    /\ n_products = 2
    /\ vocab_size = 2
    /\ listings_processed = 1
    /\ \E t \in Range(listings[1]) : t \notin DOMAIN vocabulary
    /\ IdSet(listings[1]) = Range(matched_vids_map[1])
    /\ IdSet(listings[1]) # {}
    /\ Isolated(1)
    /\ Holders(0) = {1}

\* The tokens of the first n lines of the products file, in reading order.
RECURSIVE TokensOfLines(_)
TokensOfLines(n) ==
    IF n = 0 THEN <<>> ELSE TokensOfLines(n - 1) \o products[n]

\* The tokens registered so far.
SeenTokens ==
    IF pc = "vocab" /\ i < n_products
    THEN TokensOfLines(i) \o SubSeq(products[i + 1], 1, j)
    ELSE TokensOfLines(n_products)

FirstSeen(stream, t) ==
    CHOOSE x \in 1..Len(stream) : stream[x] = t /\ \A y \in 1..(x - 1) : stream[y] # t

VocabularyOk ==
    /\ DOMAIN vocabulary = Range(SeenTokens)
    /\ vocab_size = Cardinality(Range(SeenTokens))
    /\ {vocabulary[t] : t \in DOMAIN vocabulary} = 0..(vocab_size - 1)
    /\ \A t, u \in DOMAIN vocabulary :
           /\ (vocabulary[t] = vocabulary[u]) => (t = u)
           /\ (vocabulary[t] < vocabulary[u])
                  <=> (FirstSeen(SeenTokens, t) < FirstSeen(SeenTokens, u))

\* C8: at every point of the pass over the products the vocabulary maps the
\* distinct tokens seen so far one-to-one onto 0..vocab_size-1 in first-seen
\* order, no step changes the id of a token, and registering a known token
\* changes neither the vocabulary nor vocab_size.
C8_VocabularyFirstSeen ==
    /\ VocabularyOk
    /\ [][/\ VocabularyOk'
          /\ \A t \in DOMAIN vocabulary :
                 t \in DOMAIN vocabulary' /\ vocabulary'[t] = vocabulary[t]
          /\ (pc = "vocab" /\ j' = j + 1 /\ products[i + 1][j + 1] \in DOMAIN vocabulary)
                 => (vocabulary' = vocabulary /\ vocab_size' = vocab_size)]_vars

\* The second line registered a new token after a known one was seen in the
\* first line, then met both again.
C8_Witness ==
    /\ pc = "vocab"
    /\ i = 1
    /\ j = 3
    /\ products[1] = <<"b">>
    /\ products[2] = <<"a", "b", "a">>
    /\ vocab_size = 2
    /\ vocabulary["b"] = 0
    /\ vocabulary["a"] = 1
    /\ vids = <<1, 0, 1>>

\* C9: after the index build the buckets of each band hold n_products
\* entries in all (n_products * b_bands over the bands), and no bucket list
\* holds an id twice.
C9_OneEntryPerBand ==
    IndexBuilt =>
        \A b \in BandIds :
            /\ SumLen(banded_minhash_lookup_map[b], DOMAIN banded_minhash_lookup_map[b])
                   = n_products
            /\ \A key \in DOMAIN banded_minhash_lookup_map[b] :
                   Len(banded_minhash_lookup_map[b][key])
                       = Cardinality(Range(banded_minhash_lookup_map[b][key]))

\* C10: once the build is finished no step changes the vocabulary, the hash
\* family or the banded index.
C10_ReadOnlyAfterBuild ==
    [][IndexBuilt =>
          /\ vocabulary' = vocabulary
          /\ vocab_size' = vocab_size
          /\ prime' = prime
          /\ hash_functions' = hash_functions
          /\ banded_minhash_lookup_map' = banded_minhash_lookup_map]_vars

\* Two listings matched; the first accumulated candidates from a bucket, the
\* last accumulated two candidates over two bands.
C10_Witness ==
    /\ IndexBuilt
    /\ listings_processed = 2
    /\ listings_matched = 2
    /\ b_bands = 2
    /\ n_products = 2
    /\ \A ret \in LastReturns : Len(ret) = 2

====
